---- MODULE Spec2Model ----
(***************************************************************************)
(* Orchestration control loop of indra-ai (src/orchestration/scheduler.py) *)
(* together with the workers that write the state it reads                 *)
(* (src/data-collection/scraper.py, src/data-processing/processor.py,      *)
(* src/model-training/train.py; the usage log is written by                *)
(* src/api/index.py).                                                      *)
(*                                                                         *)
(* Time is counted in minutes.  A table of the repository is the set (or   *)
(* bag, where the row id is never read) of its rows; an rq queue is the    *)
(* sequence of its jobs.  A job is executed by calling the method its      *)
(* function string names.                                                  *)
(***************************************************************************)
EXTENDS Bags, FiniteSets, Integers, Sequences, TLC

VARIABLES
    now,                \* the wall clock (datetime.utcnow()), in minutes
    env,                \* os.environ['AUTO_TRAIN_THRESHOLD']
    scraped_content,    \* table: set of rows [id, source, created_at]
    processed_content,  \* table: bag of rows [source, original_id, is_training_ready]
    training_jobs,      \* table: set of rows [id, created_at, fmt, status]
    api_usage,          \* table: set of rows [id, created_at]
    scraping_queue,     \* Queue('scraping')
    processing_queue,   \* Queue('processing')
    training_queue,     \* Queue('training')
    queue,              \* Queue(): the default queue the workers listen on
    SCHEDULED_JOBS,     \* Counter scheduled_jobs_total{job_type}
    FAILED_JOBS,        \* Counter failed_jobs_total{job_type}
    ACTIVE_JOBS,        \* Gauge active_jobs{job_type}
    pc,                 \* position of the scheduler process
    step,               \* position inside monitor_and_schedule
    next_run,           \* next_run of the schedule job every(30).minutes
    via_schedule,       \* the running cycle was started by run_pending
    cycles,             \* monitoring cycles started so far
    faults_left,        \* repository/queue errors that may still happen
    cycle_log,          \* what the running cycle did, per unit of work
    stats,              \* the local stats of the running cycle
    cycle_start,        \* clock, counters and queue lengths when the cycle began
    events,             \* the calls of the running cycle, in the order made
    cleanup_next_run,   \* next_run of the schedule job every().day.at("02:00")
    pending,            \* jobs run_pending found due and has not run yet
    last_cleanup,       \* the last run of cleanup_old_jobs and what it found
    peer,               \* a second scheduler process on the same repository and queues
    executions          \* how far each train_model execution has got, by job id

vars == <<now, env, scraped_content, processed_content, training_jobs, api_usage,
          scraping_queue, processing_queue, training_queue, queue,
          SCHEDULED_JOBS, FAILED_JOBS, ACTIVE_JOBS,
          pc, step, next_run, via_schedule, cycles, faults_left, cycle_log,
          stats, cycle_start, events, cleanup_next_run, pending, last_cleanup,
          peer, executions>>

repo_vars == <<scraped_content, processed_content, training_jobs, api_usage>>
sched_queues == <<scraping_queue, processing_queue, training_queue>>
metric_vars == <<SCHEDULED_JOBS, FAILED_JOBS, ACTIVE_JOBS>>
cycle_vars == <<stats, cycle_start, events>>
sweep_vars == <<cleanup_next_run, pending, last_cleanup>>
loop_vars == <<pc, step, next_run, via_schedule, cycles, cycle_log,
               cycle_vars, sweep_vars>>

----------------------------------------------------------------------------
(* Bounds of the model *)

MaxCycles == 2
MaxFaults == 1
MaxRaw == 12
MaxRecent == 11
MaxTrainingJobs == 2
MaxDocs == 8
ConfiguredThreshold == 2
PolicyNow == 20000
MaxStartupDelay == 1
SweepDay == 40

(* Program constants *)

ScrapeWindow == 360
ScrapeThreshold == 10
ProcessThreshold == 5
TrainingCooldown == 1440
DefaultAutoTrainThreshold == 1000
MonitorPeriod == 30
ScrapeTimeout == 60
ProcessTimeout == 120
TrainTimeout == 360
JobRetention == 10080
UsageRetention == 43200
DayMinutes == 1440
CleanupAt == 120

sources == <<"tech_news", "ai_research", "programming_blogs">>

Sources == {sources[i] : i \in 1..Len(sources)}

JobTypes == {"scraping", "processing", "training"}

NoSource == "None"

(* The units of work of one monitoring cycle, in the order of the code:    *)
(* scrape and process of each source, then the global train trigger.       *)
NumUnits == 2 * Len(sources) + 1

UnitStage_process_first(k) ==
    IF k = NumUnits THEN "training"
    ELSE IF k % 2 = 1 THEN "processing" ELSE "scraping"

UnitStage(k) ==
    IF k = NumUnits THEN "training"
    ELSE IF k % 2 = 1 THEN "scraping" ELSE "processing"

UnitSource(k) ==
    IF k = NumUnits THEN NoSource ELSE sources[(k + 1) \div 2]

GaugeStep == NumUnits + 1

----------------------------------------------------------------------------
(* Helpers over tables and queues *)

Max(S) == CHOOSE x \in S : \A y \in S : y <= x

Min(S) == CHOOSE x \in S : \A y \in S : x <= y

(* Number of rows of a bag-table among the selected ones: len(result.data) *)
CountRows(table, sel) ==
    BagCardinality([r \in sel \cap DOMAIN table |-> table[r]])

(* An rq job; enqueue stamps it with the time of the call *)
Job_default_timeout(func, arg, timeout) ==
    [func |-> func, arg |-> arg, job_timeout |-> ScrapeTimeout, enqueued_at |-> now]

Job(func, arg, timeout) ==
    [func |-> func, arg |-> arg, job_timeout |-> timeout, enqueued_at |-> now]

(* What a trigger function hands back to monitor_and_schedule: its return  *)
(* value, whether its except clause ran, whether an exception escaped.     *)
Returned(v) == [ret |-> v, error |-> FALSE, raises |-> FALSE]

ExceptReturnFalse == [ret |-> FALSE, error |-> TRUE, raises |-> FALSE]

(* An exception that leaves the function (no except clause catches it) *)
Propagates == [ret |-> FALSE, error |-> TRUE, raises |-> TRUE]

----------------------------------------------------------------------------
(* Trigger policy: should_trigger_scraping / _processing / _training.      *)
(* io is FALSE when a repository request of the call raises.               *)

recent_count(source) ==
    Cardinality({r \in scraped_content :
                    r.source = source /\ r.created_at >= now - ScrapeWindow})

should_trigger_scraping_le(source, io) ==
    IF ~io THEN ExceptReturnFalse
    ELSE Returned(recent_count(source) <= ScrapeThreshold)

should_trigger_scraping_raise(source, io) ==
    IF ~io THEN Propagates
    ELSE Returned(recent_count(source) < ScrapeThreshold)

should_trigger_scraping(source, io) ==
    IF ~io THEN ExceptReturnFalse
    ELSE Returned(recent_count(source) < ScrapeThreshold)

scraped_ids(source) == {r.id : r \in {x \in scraped_content : x.source = source}}

processed_ids(source) ==
    {r.original_id : r \in {x \in DOMAIN processed_content : x.source = source}}

unprocessed_count_totals(source) ==
    LET d == Cardinality(scraped_ids(source))
             - CountRows(processed_content,
                         {r \in DOMAIN processed_content : r.source = source})
    IN  IF d < 0 THEN 0 ELSE d

unprocessed_count(source) ==
    Cardinality(scraped_ids(source) \ processed_ids(source))

should_trigger_processing_inflight(source, io) ==
    IF ~io THEN ExceptReturnFalse
    ELSE Returned(unprocessed_count(source) > ProcessThreshold
                  /\ \A i \in 1..Len(processing_queue) :
                        processing_queue[i].arg # source)

should_trigger_processing(source, io) ==
    IF ~io THEN ExceptReturnFalse
    ELSE Returned(unprocessed_count(source) > ProcessThreshold)

training_ready_count ==
    CountRows(processed_content,
              {r \in DOMAIN processed_content : r.is_training_ready})

(* int(os.getenv('AUTO_TRAIN_THRESHOLD', 1000)): ok is FALSE on ValueError *)
auto_train_threshold ==
    CASE env.kind = "unset" -> [ok |-> TRUE, val |-> DefaultAutoTrainThreshold]
      [] env.kind = "int"   -> [ok |-> TRUE, val |-> env.val]
      [] OTHER              -> [ok |-> FALSE, val |-> 0]

(* order('created_at', desc=True).limit(1) *)
last_training_row ==
    CHOOSE r \in training_jobs :
        \A o \in training_jobs :
            o.created_at < r.created_at
            \/ (o.created_at = r.created_at /\ o.id <= r.id)

(* created_at.replace('Z', '+00:00') *)
replace_Z(fmt) == IF fmt = "zulu" THEN "offset" ELSE fmt

(* datetime.fromisoformat: ok is FALSE on ValueError; a string with a UTC  *)
(* offset gives an aware datetime, one without gives a naive datetime.     *)
fromisoformat(fmt, t) ==
    [ok |-> fmt \in {"naive", "offset"}, aware |-> (fmt = "offset"), t |-> t]

(* datetime.utcnow() - last_training: naive minus aware is a TypeError *)
time_since(last) == [ok |-> ~last.aware, delta |-> now - last.t]

should_trigger_training_nocooldown(io) ==
    IF ~io \/ ~auto_train_threshold.ok THEN ExceptReturnFalse
    ELSE Returned(training_ready_count >= auto_train_threshold.val)

should_trigger_training_failopen(io) ==
    IF ~io \/ ~auto_train_threshold.ok THEN ExceptReturnFalse
    ELSE IF training_jobs = {}
    THEN Returned(training_ready_count >= auto_train_threshold.val)
    ELSE LET row  == last_training_row
             last == fromisoformat(replace_Z(row.fmt), row.created_at)
             since == time_since(last)
         IN  IF ~last.ok \/ ~since.ok
             THEN Returned(training_ready_count >= auto_train_threshold.val)
             ELSE IF since.delta < TrainingCooldown THEN Returned(FALSE)
             ELSE Returned(training_ready_count >= auto_train_threshold.val)

should_trigger_training(io) ==
    IF ~io \/ ~auto_train_threshold.ok THEN ExceptReturnFalse
    ELSE IF training_jobs = {}
    THEN Returned(training_ready_count >= auto_train_threshold.val)
    ELSE LET row  == last_training_row
             last == fromisoformat(replace_Z(row.fmt), row.created_at)
             since == time_since(last)
         IN  IF ~last.ok \/ ~since.ok THEN ExceptReturnFalse
             ELSE IF since.delta < TrainingCooldown THEN Returned(FALSE)
             ELSE Returned(training_ready_count >= auto_train_threshold.val)

----------------------------------------------------------------------------
(* The scheduler process: run_scheduler and monitor_and_schedule *)

(* No second scheduler process is running *)
NoPeer == [step |-> 0, decision |-> [k \in 1..NumUnits |-> "none"]]

FreshLog ==
    [k \in 1..NumUnits |->
        [evals |-> 0, read_ok |-> TRUE, error |-> FALSE, decision |-> "none",
         calls |-> 0]]

(* One `if self.should_trigger_x(...)` of the cycle has been evaluated *)
Evaluated(k, t, io) ==
    [cycle_log EXCEPT ![k].evals = @ + 1,
                      ![k].read_ok = io,
                      ![k].error = t.error,
                      ![k].decision = IF t.ret THEN "true" ELSE "false"]

(* Outcome of queue.enqueue followed by the counter of the try block or    *)
(* of the except clause: the queue and the two counters after the call.    *)
enqueue_twice(q, job, job_type, ok) ==
    IF ok
    THEN [q |-> Append(Append(q, job), job), calls |-> 2,
          scheduled |-> [SCHEDULED_JOBS EXCEPT ![job_type] = @ + 1],
          failed |-> FAILED_JOBS]
    ELSE [q |-> q, calls |-> 1,
          scheduled |-> SCHEDULED_JOBS,
          failed |-> [FAILED_JOBS EXCEPT ![job_type] = @ + 1]]

schedule_job(q, job, job_type, ok) ==
    IF ok
    THEN [q |-> Append(q, job), calls |-> 1,
          scheduled |-> [SCHEDULED_JOBS EXCEPT ![job_type] = @ + 1],
          failed |-> FAILED_JOBS]
    ELSE [q |-> q, calls |-> 1,
          scheduled |-> SCHEDULED_JOBS,
          failed |-> [FAILED_JOBS EXCEPT ![job_type] = @ + 1]]

schedule_scraping_job_first(source, ok) ==
    schedule_job(scraping_queue,
                 Job("data_collection.scraper.WebScraper.scrape_source",
                     sources[1], ScrapeTimeout),
                 "scraping", ok)

schedule_scraping_job(source, ok) ==
    schedule_job(scraping_queue,
                 Job("data_collection.scraper.WebScraper.scrape_source",
                     source, ScrapeTimeout),
                 "scraping", ok)

schedule_processing_job_retry(source, ok) ==
    LET job == Job("data_processing.processor.DataProcessor.process_source_data",
                   source, ProcessTimeout)
        first == schedule_job(processing_queue, job, "processing", ok)
    IN  IF ok THEN first
        ELSE [q |-> Append(processing_queue, job), calls |-> 2,
              scheduled |-> [SCHEDULED_JOBS EXCEPT !["processing"] = @ + 1],
              failed |-> first.failed]

schedule_processing_job(source, ok) ==
    schedule_job(processing_queue,
                 Job("data_processing.processor.DataProcessor.process_source_data",
                     source, ProcessTimeout),
                 "processing", ok)

schedule_training_job_mislabelled(ok) ==
    schedule_job(training_queue,
                 Job("model_training.train.ModelTrainer.train_model",
                     NoSource, TrainTimeout),
                 "processing", ok)

schedule_training_job(ok) ==
    schedule_job(training_queue,
                 Job("model_training.train.ModelTrainer.train_model",
                     NoSource, TrainTimeout),
                 "training", ok)

(* A repository or queue request may fail while faults_left is positive *)
Outcomes == IF faults_left > 0 THEN {TRUE, FALSE} ELSE {TRUE}

Spend(oks) == faults_left - Cardinality({i \in DOMAIN oks : ~oks[i]})

(* The calls a cycle makes, as they are logged in events *)
EvalEvent(k) ==
    [kind |-> "evaluate", stage |-> UnitStage(k), source |-> UnitSource(k), ok |-> TRUE]

DispatchEvent(k, ok) ==
    [kind |-> "dispatch", stage |-> UnitStage(k), source |-> UnitSource(k), ok |-> ok]

GaugeEvent(job_type) ==
    [kind |-> "gauge", stage |-> job_type, source |-> NoSource, ok |-> TRUE]

QueueLen(job_type) ==
    CASE job_type = "scraping"   -> Len(scraping_queue)
      [] job_type = "processing" -> Len(processing_queue)
      [] job_type = "training"   -> Len(training_queue)

BeginCycle(scheduled) ==
    /\ pc' = "cycle"
    /\ step' = 0
    /\ via_schedule' = scheduled
    /\ cycles' = cycles + 1
    /\ cycle_log' = FreshLog
    /\ stats' = "unset"
    /\ cycle_start' = [at |-> now, prev_at |-> cycle_start.at,
                       scheduled |-> SCHEDULED_JOBS, failed |-> FAILED_JOBS,
                       queued |-> [t \in JobTypes |-> QueueLen(t)]]
    /\ events' = <<>>

NextDailyAt_midnight(t) == (t \div DayMinutes) * DayMinutes

(* Job.at("02:00") of the schedule library: the first 02:00 after t *)
NextDailyAt(t) ==
    LET today == (t \div DayMinutes) * DayMinutes + CleanupAt
    IN  IF today > t THEN today ELSE today + DayMinutes

(* run_scheduler: the two jobs are registered with the schedule library,   *)
(* which fixes their first next_run at the time of registration.           *)
run_scheduler ==
    /\ pc = "boot"
    /\ pc' = "registered"
    /\ next_run' = now + MonitorPeriod
    /\ cleanup_next_run' = NextDailyAt(now)
    /\ UNCHANGED <<now, env, executions, peer, repo_vars, sched_queues, queue, metric_vars, faults_left,
                   step, via_schedule, cycles, cycle_log, cycle_vars,
                   pending, last_cleanup>>

(* The clock moves between the registration and the initial cycle *)
startup_delay ==
    /\ pc = "registered"
    /\ now < (next_run - MonitorPeriod) + MaxStartupDelay
    /\ now' = now + 1
    /\ UNCHANGED <<env, executions, peer, repo_vars, sched_queues, queue, metric_vars, faults_left,
                   pc, step, next_run, via_schedule, cycles, cycle_log, cycle_vars,
                   sweep_vars>>

(* self.monitor_and_schedule(), the initial cycle of run_scheduler *)
initial_monitor_and_schedule ==
    /\ pc = "registered"
    /\ BeginCycle(FALSE)
    /\ UNCHANGED <<now, env, executions, peer, repo_vars, sched_queues, queue, metric_vars, faults_left,
                   next_run, sweep_vars>>

(* stats = self.get_system_stats(): reads only, swallows every exception   *)
(* (logs it and returns {}), and its result is not used by the rest of     *)
(* the cycle.                                                              *)
get_system_stats ==
    /\ pc = "cycle" /\ step = 0
    /\ \E io \in Outcomes :
          /\ faults_left' = Spend(<<io>>)
          /\ stats' = IF io THEN "ok" ELSE "empty"
          /\ step' = 1
    /\ UNCHANGED <<now, env, executions, peer, repo_vars, sched_queues, queue, metric_vars,
                   pc, next_run, via_schedule, cycles, cycle_log,
                   cycle_start, events, sweep_vars>>

(* Where the scheduler goes after unit k: an exception that escapes        *)
(* monitor_and_schedule also escapes run_pending and run_scheduler.        *)
AfterUnit(t) ==
    IF t.raises
    THEN pc' = "crashed" /\ step' = step
    ELSE pc' = pc /\ step' = step + 1

CheckScraping ==
    /\ pc = "cycle" /\ step \in 1..NumUnits /\ UnitStage(step) = "scraping"
    /\ \E io \in Outcomes, ok \in Outcomes :
          LET source == UnitSource(step)
              t == should_trigger_scraping(source, io)
              r == schedule_scraping_job(source, ok)
          IN  /\ Spend(<<io, ok>>) >= 0
              /\ AfterUnit(t)
              /\ IF t.ret
                 THEN /\ scraping_queue' = r.q
                      /\ SCHEDULED_JOBS' = r.scheduled
                      /\ FAILED_JOBS' = r.failed
                      /\ cycle_log' = [Evaluated(step, t, io) EXCEPT ![step].calls = @ + r.calls]
                      /\ events' = events \o <<EvalEvent(step), DispatchEvent(step, ok)>>
                      /\ faults_left' = Spend(<<io, ok>>)
                 ELSE /\ ok
                      /\ cycle_log' = Evaluated(step, t, io)
                      /\ events' = Append(events, EvalEvent(step))
                      /\ faults_left' = Spend(<<io>>)
                      /\ UNCHANGED <<scraping_queue, SCHEDULED_JOBS, FAILED_JOBS>>
    /\ UNCHANGED <<now, env, executions, peer, repo_vars, processing_queue, training_queue, queue,
                   ACTIVE_JOBS, next_run, via_schedule, cycles,
                   stats, cycle_start, sweep_vars>>

CheckProcessing ==
    /\ pc = "cycle" /\ step \in 1..NumUnits /\ UnitStage(step) = "processing"
    /\ \E io \in Outcomes, ok \in Outcomes :
          LET source == UnitSource(step)
              t == should_trigger_processing(source, io)
              r == schedule_processing_job(source, ok)
          IN  /\ Spend(<<io, ok>>) >= 0
              /\ AfterUnit(t)
              /\ IF t.ret
                 THEN /\ processing_queue' = r.q
                      /\ SCHEDULED_JOBS' = r.scheduled
                      /\ FAILED_JOBS' = r.failed
                      /\ cycle_log' = [Evaluated(step, t, io) EXCEPT ![step].calls = @ + r.calls]
                      /\ events' = events \o <<EvalEvent(step), DispatchEvent(step, ok)>>
                      /\ faults_left' = Spend(<<io, ok>>)
                 ELSE /\ ok
                      /\ cycle_log' = Evaluated(step, t, io)
                      /\ events' = Append(events, EvalEvent(step))
                      /\ faults_left' = Spend(<<io>>)
                      /\ UNCHANGED <<processing_queue, SCHEDULED_JOBS, FAILED_JOBS>>
    /\ UNCHANGED <<now, env, executions, peer, repo_vars, scraping_queue, training_queue, queue,
                   ACTIVE_JOBS, next_run, via_schedule, cycles,
                   stats, cycle_start, sweep_vars>>

CheckTraining_audit ==
    /\ pc = "cycle" /\ step = NumUnits
    /\ \E io \in Outcomes, ok \in Outcomes :
          LET t == should_trigger_training(io)
              r == schedule_training_job(ok)
          IN  /\ Spend(<<io, ok>>) >= 0
              /\ AfterUnit(t)
              /\ IF t.ret
                 THEN /\ training_queue' = r.q
                      /\ training_jobs' = training_jobs \cup
                            {[id |-> Cardinality(training_jobs) + 1,
                              created_at |-> now, fmt |-> "naive",
                              status |-> "queued"]}
                      /\ SCHEDULED_JOBS' = r.scheduled
                      /\ FAILED_JOBS' = r.failed
                      /\ cycle_log' = [Evaluated(step, t, io) EXCEPT ![step].calls = @ + r.calls]
                      /\ events' = events \o <<EvalEvent(step), DispatchEvent(step, ok)>>
                      /\ faults_left' = Spend(<<io, ok>>)
                 ELSE /\ ok
                      /\ cycle_log' = Evaluated(step, t, io)
                      /\ events' = Append(events, EvalEvent(step))
                      /\ faults_left' = Spend(<<io>>)
                      /\ UNCHANGED <<training_queue, training_jobs,
                                     SCHEDULED_JOBS, FAILED_JOBS>>
    /\ UNCHANGED <<now, env, executions, peer, scraped_content, processed_content, api_usage,
                   scraping_queue, processing_queue, queue,
                   ACTIVE_JOBS, next_run, via_schedule, cycles,
                   stats, cycle_start, sweep_vars>>

CheckTraining ==
    /\ pc = "cycle" /\ step = NumUnits
    /\ \E io \in Outcomes, ok \in Outcomes :
          LET t == should_trigger_training(io)
              r == schedule_training_job(ok)
          IN  /\ Spend(<<io, ok>>) >= 0
              /\ AfterUnit(t)
              /\ IF t.ret
                 THEN /\ training_queue' = r.q
                      /\ SCHEDULED_JOBS' = r.scheduled
                      /\ FAILED_JOBS' = r.failed
                      /\ cycle_log' = [Evaluated(step, t, io) EXCEPT ![step].calls = @ + r.calls]
                      /\ events' = events \o <<EvalEvent(step), DispatchEvent(step, ok)>>
                      /\ faults_left' = Spend(<<io, ok>>)
                 ELSE /\ ok
                      /\ cycle_log' = Evaluated(step, t, io)
                      /\ events' = Append(events, EvalEvent(step))
                      /\ faults_left' = Spend(<<io>>)
                      /\ UNCHANGED <<training_queue, SCHEDULED_JOBS, FAILED_JOBS>>
    /\ UNCHANGED <<now, env, executions, peer, repo_vars, scraping_queue, processing_queue, queue,
                   ACTIVE_JOBS, next_run, via_schedule, cycles,
                   stats, cycle_start, sweep_vars>>

(* The gauge loop at the end of the cycle.  len(queue) is a Redis request  *)
(* outside any try block: failing at the i-th queue leaves the gauges of   *)
(* the queues before it set and the exception escapes the cycle.           *)
GaugeOrder == <<"scraping", "processing", "training">>

GaugesSet_at_start(n) ==
    [t \in JobTypes |->
        IF \E i \in 1..n : GaugeOrder[i] = t THEN cycle_start.queued[t]
        ELSE ACTIVE_JOBS[t]]

GaugesSet(n) ==
    [t \in JobTypes |->
        IF \E i \in 1..n : GaugeOrder[i] = t THEN QueueLen(t) ELSE ACTIVE_JOBS[t]]

GaugeEvents(n) == [i \in 1..n |-> GaugeEvent(GaugeOrder[i])]

(* Where run_pending goes on when the job it ran has returned *)
AfterJob(rest) == IF rest = <<>> THEN "sleep" ELSE "run_job"

update_metrics ==
    /\ pc = "cycle" /\ step = GaugeStep
    /\ \E failAt \in 0..Len(GaugeOrder) :
          /\ failAt # 0 => faults_left > 0
          /\ faults_left' = IF failAt = 0 THEN faults_left ELSE faults_left - 1
          /\ IF failAt = 0
             THEN /\ ACTIVE_JOBS' = GaugesSet(Len(GaugeOrder))
                  /\ events' = events \o GaugeEvents(Len(GaugeOrder))
                  /\ pc' = IF via_schedule THEN AfterJob(pending) ELSE "run_pending"
                  /\ next_run' = IF via_schedule THEN now + MonitorPeriod ELSE next_run
             ELSE /\ ACTIVE_JOBS' = GaugesSet(failAt - 1)
                  /\ events' = events \o GaugeEvents(failAt - 1)
                  /\ pc' = "crashed"
                  /\ next_run' = next_run
    /\ UNCHANGED <<now, env, executions, peer, repo_vars, sched_queues, queue, SCHEDULED_JOBS,
                   FAILED_JOBS, step, via_schedule, cycles, cycle_log,
                   stats, cycle_start, sweep_vars>>

(* schedule.run_pending(): the jobs that are due, sorted by next_run (the  *)
(* sort is stable and the monitoring job was registered first).            *)
Runnable ==
    LET m == now >= next_run
        c == now >= cleanup_next_run
    IN  IF m /\ c
        THEN IF cleanup_next_run < next_run
             THEN <<"cleanup", "monitor">>
             ELSE <<"monitor", "cleanup">>
        ELSE IF m THEN <<"monitor">>
        ELSE IF c THEN <<"cleanup">>
        ELSE <<>>

(* schedule.run_pending() of the main loop collects the due jobs; with     *)
(* none due it falls through to time.sleep(60).                            *)
run_pending ==
    /\ pc = "run_pending"
    /\ pending' = Runnable
    /\ pc' = AfterJob(Runnable)
    /\ UNCHANGED <<now, env, executions, peer, repo_vars, sched_queues, queue, metric_vars,
                   step, next_run, via_schedule, cycles, cycle_log, cycle_vars,
                   cleanup_next_run, last_cleanup, faults_left>>

(* run_pending runs the monitoring job: a scheduled monitoring cycle *)
monitor_and_schedule ==
    /\ pc = "run_job" /\ pending # <<>> /\ Head(pending) = "monitor"
    /\ cycles < MaxCycles
    /\ pending' = Tail(pending)
    /\ BeginCycle(TRUE)
    /\ UNCHANGED <<now, env, executions, peer, repo_vars, sched_queues, queue, metric_vars, faults_left,
                   next_run, cleanup_next_run, last_cleanup>>

(* DELETE ... WHERE created_at < cutoff *)
delete_le(table, cutoff) == {r \in table : ~(r.created_at <= cutoff)}

delete_lt(table, cutoff) == {r \in table : ~(r.created_at < cutoff)}

cutoff_time == now - JobRetention

usage_cutoff_week == now - JobRetention

usage_cutoff == now - UsageRetention

cleanup_old_jobs_purges_raw ==
    /\ pc = "run_job" /\ pending # <<>> /\ Head(pending) = "cleanup"
    /\ \E failAt \in 0..2 :
          /\ failAt # 0 => faults_left > 0
          /\ faults_left' = IF failAt = 0 THEN faults_left ELSE faults_left - 1
          /\ training_jobs' = IF failAt = 1 THEN training_jobs
                              ELSE delete_lt(training_jobs, cutoff_time)
          /\ api_usage' = IF failAt = 0 THEN delete_lt(api_usage, usage_cutoff)
                          ELSE api_usage
          /\ last_cleanup' = [runs |-> last_cleanup.runs + 1, at |-> now,
                              jobs |-> training_jobs, usage |-> api_usage,
                              failed_at |-> failAt]
    /\ scraped_content' = delete_lt(scraped_content, now - ScrapeWindow)
    /\ cleanup_next_run' = NextDailyAt(now)
    /\ pending' = Tail(pending)
    /\ pc' = AfterJob(Tail(pending))
    /\ UNCHANGED <<now, env, executions, peer, processed_content, sched_queues, queue,
                   metric_vars, step, next_run, via_schedule, cycles, cycle_log,
                   cycle_vars>>

cleanup_old_jobs_independent ==
    /\ pc = "run_job" /\ pending # <<>> /\ Head(pending) = "cleanup"
    /\ \E failAt \in 0..2 :
          /\ failAt # 0 => faults_left > 0
          /\ faults_left' = IF failAt = 0 THEN faults_left ELSE faults_left - 1
          /\ training_jobs' = IF failAt = 1 THEN training_jobs
                              ELSE delete_lt(training_jobs, cutoff_time)
          /\ api_usage' = IF failAt # 2 THEN delete_lt(api_usage, usage_cutoff)
                          ELSE api_usage
          /\ last_cleanup' = [runs |-> last_cleanup.runs + 1, at |-> now,
                              jobs |-> training_jobs, usage |-> api_usage,
                              failed_at |-> failAt]
    /\ cleanup_next_run' = NextDailyAt(now)
    /\ pending' = Tail(pending)
    /\ pc' = AfterJob(Tail(pending))
    /\ UNCHANGED <<now, env, executions, peer, scraped_content, processed_content, sched_queues, queue,
                   metric_vars, step, next_run, via_schedule, cycles, cycle_log,
                   cycle_vars>>

(* run_pending runs the retention sweep.  Both deletions sit in one try    *)
(* block: the request that raises (failAt) ends the sweep, the except      *)
(* clause logs and returns.  The library then sets the job's next_run.     *)
cleanup_old_jobs ==
    /\ pc = "run_job" /\ pending # <<>> /\ Head(pending) = "cleanup"
    /\ \E failAt \in 0..2 :
          /\ failAt # 0 => faults_left > 0
          /\ faults_left' = IF failAt = 0 THEN faults_left ELSE faults_left - 1
          /\ training_jobs' = IF failAt = 1 THEN training_jobs
                              ELSE delete_lt(training_jobs, cutoff_time)
          /\ api_usage' = IF failAt = 0 THEN delete_lt(api_usage, usage_cutoff)
                          ELSE api_usage
          /\ last_cleanup' = [runs |-> last_cleanup.runs + 1, at |-> now,
                              jobs |-> training_jobs, usage |-> api_usage,
                              failed_at |-> failAt]
    /\ cleanup_next_run' = NextDailyAt(now)
    /\ pending' = Tail(pending)
    /\ pc' = AfterJob(Tail(pending))
    /\ UNCHANGED <<now, env, executions, peer, scraped_content, processed_content, sched_queues, queue,
                   metric_vars, step, next_run, via_schedule, cycles, cycle_log,
                   cycle_vars>>

(* time.sleep(60) until the next poll at which a job is due (iterations of *)
(* the loop in which nothing is due are folded into one sleep), or much    *)
(* longer: the process sleeps at least as long as it asked for.            *)
NextDue == Min({next_run, cleanup_next_run})

SleepSteps == {Max({1, NextDue - now}), TrainingCooldown}

sleep ==
    /\ pc = "sleep"
    /\ \E d \in SleepSteps : now' = now + d
    /\ pc' = "run_pending"
    /\ UNCHANGED <<env, executions, peer, repo_vars, sched_queues, queue, metric_vars,
                   step, next_run, via_schedule, cycles, faults_left, cycle_log,
                   cycle_vars, sweep_vars>>

----------------------------------------------------------------------------
(* What the process does when Redis stops answering and when it receives   *)
(* a termination signal.                                                   *)

(* len(queue) of the gauge loop on a connection made by redis.from_url     *)
(* without socket_timeout: a request that gets no answer never returns.    *)
redis_never_answers ==
    /\ pc = "cycle" /\ step = GaugeStep
    /\ faults_left > 0
    /\ faults_left' = faults_left - 1
    /\ pc' = "blocked"
    /\ UNCHANGED <<now, env, executions, peer, repo_vars, sched_queues, queue, metric_vars,
                   step, next_run, via_schedule, cycles, cycle_log,
                   cycle_vars, sweep_vars>>

Running == {"registered", "cycle", "run_pending", "run_job", "sleep", "blocked"}

(* SIGTERM: the process installs no handler, the default disposition ends  *)
(* it wherever it is.                                                      *)
shutdown_signal ==
    /\ pc \in Running
    /\ pc' = "killed"
    /\ UNCHANGED <<now, env, executions, peer, repo_vars, sched_queues, queue, metric_vars,
                   step, next_run, via_schedule, cycles, faults_left, cycle_log,
                   cycle_vars, sweep_vars>>

(* How the process has ended, as its parent sees it *)
exit_status ==
    CASE pc = "killed"  -> "SIGTERM"
      [] pc = "crashed" -> "1"
      [] OTHER          -> "running"

----------------------------------------------------------------------------
(* The workers.  Each listens on the default queue Queue() of its own      *)
(* setup_redis and runs the job at its head.                               *)

(* The names of the queues a worker process listens on: Queue() without a  *)
(* name is rq's queue 'default'.                                           *)
worker_queue_names == {"default"}

BatchSizes == {6}

NextId(table) == IF table = {} THEN 1 ELSE Max({r.id : r \in table}) + 1

(* WebScraper.scrape_source: saves n new pages of the source (created_at   *)
(* is set by the repository) and queues a processing job if n > 0.         *)
scrape_source ==
    \E source \in Sources, n \in BatchSizes :
        /\ Cardinality(scraped_content) + n <= MaxRaw
        /\ LET first == NextId(scraped_content)
           IN  scraped_content' = scraped_content \cup
                  {[id |-> first + i, source |-> source, created_at |-> now] :
                       i \in 0..(n - 1)}
        /\ queue' = Append(queue,
                      Job("data_processing.processor.process_source_data", source, 0))
        /\ UNCHANGED <<now, env, executions, peer, processed_content, training_jobs, api_usage,
                       sched_queues, metric_vars, loop_vars, faults_left>>

unprocessed_docs(source) ==
    {r.id : r \in {x \in scraped_content :
                      x.source = source /\ x.id \notin processed_ids(source)}}

Lowest(S, n) == {x \in S : Cardinality({y \in S : y < x}) < n}

(* DataProcessor.process_source_data: process_document saves a row for     *)
(* each unprocessed document it accepts (saved of them, all flagged ready  *)
(* or none), then a training job is queued if the source has enough        *)
(* training-ready rows.                                                    *)
process_source_data ==
    /\ queue # <<>>
    /\ Head(queue).func = "data_processing.processor.process_source_data"
    /\ LET source == Head(queue).arg
           docs == unprocessed_docs(source)
       IN  \E saved \in {0, Cardinality(docs)}, ready \in BOOLEAN :
              LET rows == {[source |-> source, original_id |-> d,
                            is_training_ready |-> ready] : d \in Lowest(docs, saved)}
                  after == processed_content (+) SetToBag(rows)
                  filtered == CountRows(after,
                                {r \in DOMAIN after :
                                    r.source = source /\ r.is_training_ready})
              IN  /\ saved = 0 => ready
                  /\ processed_content' = after
                  /\ queue' =
                       IF scraped_ids(source) # {}
                          /\ auto_train_threshold.ok
                          /\ filtered >= auto_train_threshold.val
                       THEN Append(Tail(queue),
                                   Job("model_training.train.train_model", source, 0))
                       ELSE Tail(queue)
    /\ UNCHANGED <<now, env, executions, peer, scraped_content, training_jobs, api_usage, sched_queues,
                   metric_vars, loop_vars, faults_left>>

TsFormats == {"naive", "offset", "zulu", "malformed"}

(* The renderings the repository itself gives a created_at it has set *)
RepositoryFormats == {"naive", "offset", "malformed"}

(* ModelTrainer.create_training_job_record, the first statement of         *)
(* train_model: one row with status 'started'; created_at is set by the    *)
(* repository, fmt is how the repository later renders it.                 *)
create_training_job_record(fmt) ==
    training_jobs \cup
        {[id |-> NextId(training_jobs), created_at |-> now, fmt |-> fmt,
          status |-> "started"]}

train_model_start ==
    /\ queue # <<>>
    /\ Head(queue).func = "model_training.train.train_model"
    /\ Cardinality(training_jobs) < MaxTrainingJobs
    /\ \E fmt \in RepositoryFormats : training_jobs' = create_training_job_record(fmt)
    /\ executions' = (NextId(training_jobs) :> "started") @@ executions
    /\ queue' = Tail(queue)
    /\ UNCHANGED <<now, env, peer, scraped_content, processed_content, api_usage,
                   sched_queues, metric_vars, loop_vars, faults_left>>

(* What an update request of the trainer can do: change the row, return   *)
(* no data (logged by update_training_job_record, nothing changed), or     *)
(* raise.                                                                  *)
UpdateOutcomes ==
    IF faults_left > 0 THEN {"applied", "no_data", "raises"} ELSE {"applied"}

Failures(outcomes) == Cardinality({i \in DOMAIN outcomes : outcomes[i] # "applied"})

update_training_job_record(job_id, status, outcome) ==
    IF outcome = "applied"
    THEN {IF r.id = job_id THEN [r EXCEPT !.status = status] ELSE r : r \in training_jobs}
    ELSE training_jobs

(* train_model from the start of its try block to the update that sets     *)
(* status 'training': loading the data or preparing the model may raise    *)
(* (work_ok is FALSE), and so may the update; the except clause then sets  *)
(* status 'failed' and raises again.                                       *)
train_model_prepare ==
    \E job_id \in DOMAIN executions, work_ok \in BOOLEAN,
       u \in UpdateOutcomes, f \in UpdateOutcomes :
        /\ executions[job_id] = "started"
        /\ IF work_ok /\ u # "raises"
           THEN /\ f = "applied"
                /\ training_jobs' = update_training_job_record(job_id, "training", u)
                /\ executions' = [executions EXCEPT ![job_id] = "training"]
                /\ Failures(<<u>>) <= faults_left
                /\ faults_left' = faults_left - Failures(<<u>>)
           ELSE /\ work_ok => u = "raises"
                /\ ~work_ok => u = "applied"
                /\ training_jobs' = update_training_job_record(job_id, "failed", f)
                /\ executions' = [executions EXCEPT ![job_id] = "raised"]
                /\ Failures(<<u, f>>) <= faults_left
                /\ faults_left' = faults_left - Failures(<<u, f>>)
        /\ UNCHANGED <<now, env, peer, scraped_content, processed_content, api_usage,
                       sched_queues, queue, metric_vars, loop_vars>>

(* train_model from trainer.train() to its return: training or saving the  *)
(* model may raise, and so may the update that sets status 'completed';    *)
(* after that update nothing reaches the except clause.                    *)
train_model_finish ==
    \E job_id \in DOMAIN executions, work_ok \in BOOLEAN,
       u \in UpdateOutcomes, f \in UpdateOutcomes :
        /\ executions[job_id] = "training"
        /\ IF work_ok /\ u # "raises"
           THEN /\ f = "applied"
                /\ training_jobs' = update_training_job_record(job_id, "completed", u)
                /\ executions' = [executions EXCEPT ![job_id] = "returned"]
                /\ Failures(<<u>>) <= faults_left
                /\ faults_left' = faults_left - Failures(<<u>>)
           ELSE /\ work_ok => u = "raises"
                /\ ~work_ok => u = "applied"
                /\ training_jobs' = update_training_job_record(job_id, "failed", f)
                /\ executions' = [executions EXCEPT ![job_id] = "raised"]
                /\ Failures(<<u, f>>) <= faults_left
                /\ faults_left' = faults_left - Failures(<<u, f>>)
        /\ UNCHANGED <<now, env, peer, scraped_content, processed_content, api_usage,
                       sched_queues, queue, metric_vars, loop_vars>>

----------------------------------------------------------------------------
(* A second scheduler process started against the same repository and the  *)
(* same Redis: it runs the same monitor_and_schedule.  Its Prometheus      *)
(* counters live in its own process and are not modelled; its requests     *)
(* succeed.                                                                *)

(* The decision of `if self.should_trigger_x(...)` for unit k, an in-flight *)
(* job of the same target making it negative                                *)
peer_decision_exclusive(k) ==
    LET t == CASE UnitStage(k) = "scraping" ->
                     should_trigger_scraping(UnitSource(k), TRUE)
               [] UnitStage(k) = "processing" ->
                     should_trigger_processing(UnitSource(k), TRUE)
               [] UnitStage(k) = "training" -> should_trigger_training(TRUE)
        q == CASE UnitStage(k) = "scraping" -> scraping_queue
               [] UnitStage(k) = "processing" -> processing_queue
               [] UnitStage(k) = "training" -> training_queue
    IN  IF \E i \in 1..Len(q) : q[i].arg = UnitSource(k)
        THEN Returned(FALSE) ELSE t

(* The decision of `if self.should_trigger_x(...)` for unit k *)
peer_decision(k) ==
    CASE UnitStage(k) = "scraping" ->
            should_trigger_scraping(UnitSource(k), TRUE)
      [] UnitStage(k) = "processing" ->
            should_trigger_processing(UnitSource(k), TRUE)
      [] UnitStage(k) = "training" -> should_trigger_training(TRUE)

(* main() of the second process *)
peer_start ==
    /\ peer.step = 0
    /\ peer' = [step |-> 1, decision |-> [k \in 1..NumUnits |-> "none"]]
    /\ UNCHANGED <<now, env, executions, repo_vars, sched_queues, queue, metric_vars,
                   faults_left, loop_vars>>

(* One unit of the second process's monitor_and_schedule *)
peer_monitor_and_schedule ==
    /\ peer.step \in 1..NumUnits
    /\ LET k == peer.step
           t == peer_decision(k)
       IN  /\ peer' = [step |-> IF t.raises THEN 0 ELSE k + 1,
                       decision |-> [peer.decision EXCEPT ![k] =
                                        IF t.ret THEN "true" ELSE "false"]]
           /\ scraping_queue' =
                 IF t.ret /\ UnitStage(k) = "scraping"
                 THEN schedule_scraping_job(UnitSource(k), TRUE).q
                 ELSE scraping_queue
           /\ processing_queue' =
                 IF t.ret /\ UnitStage(k) = "processing"
                 THEN schedule_processing_job(UnitSource(k), TRUE).q
                 ELSE processing_queue
           /\ training_queue' =
                 IF t.ret /\ UnitStage(k) = "training"
                 THEN schedule_training_job(TRUE).q
                 ELSE training_queue
    /\ UNCHANGED <<now, env, executions, repo_vars, queue, metric_vars, faults_left, loop_vars>>

----------------------------------------------------------------------------
(* Specification of the running system *)

EnvValues ==
    {[kind |-> "unset", val |-> 0],
     [kind |-> "int", val |-> ConfiguredThreshold],
     [kind |-> "garbage", val |-> 0]}

ZeroCounters == [t \in JobTypes |-> 0]

InitScheduler ==
    /\ scraping_queue = <<>>
    /\ processing_queue = <<>>
    /\ training_queue = <<>>
    /\ queue = <<>>
    /\ SCHEDULED_JOBS = ZeroCounters
    /\ FAILED_JOBS = ZeroCounters
    /\ ACTIVE_JOBS = ZeroCounters
    /\ pc = "boot"
    /\ step = 0
    /\ next_run = 0
    /\ via_schedule = FALSE
    /\ cycles = 0
    /\ cycle_log = FreshLog
    /\ stats = "unset"
    /\ cycle_start = [at |-> 0, prev_at |-> 0,
                      scheduled |-> ZeroCounters, failed |-> ZeroCounters,
                      queued |-> ZeroCounters]
    /\ events = <<>>
    /\ cleanup_next_run = 0
    /\ pending = <<>>
    /\ last_cleanup = [runs |-> 0, at |-> 0, jobs |-> {}, usage |-> {},
                       failed_at |-> 0]
    /\ peer = NoPeer
    /\ executions = <<>>

(* The whole pipeline on a fresh repository, every request succeeding *)
Init ==
    /\ now = 0
    /\ env = [kind |-> "int", val |-> ConfiguredThreshold]
    /\ faults_left = 0
    /\ scraped_content = {}
    /\ processed_content = EmptyBag
    /\ training_jobs = {}
    /\ api_usage = {}
    /\ InitScheduler

SchedulerNext ==
    \/ run_scheduler
    \/ initial_monitor_and_schedule
    \/ get_system_stats
    \/ CheckScraping
    \/ CheckProcessing
    \/ CheckTraining
    \/ update_metrics
    \/ run_pending

(* The steps of the scheduler that need the clock to move *)
TimedNext ==
    \/ startup_delay
    \/ sleep
    \/ monitor_and_schedule
    \/ cleanup_old_jobs

Next ==
    \/ SchedulerNext
    \/ TimedNext
    \/ scrape_source
    \/ process_source_data
    \/ train_model_start

Spec == Init /\ [][Next]_vars

----------------------------------------------------------------------------
(* Specification of one scheduler process started against a repository     *)
(* that already holds content: the trigger functions and the cycle are     *)
(* applied to repository contents drawn from bounded families.             *)

(* n rows of one source with ids first..first+n-1, all created at time t *)
RawRows(source, first, n, t) ==
    {[id |-> first + i, source |-> source, created_at |-> t] : i \in 0..(n - 1)}

OtherSource(source) == CHOOSE o \in Sources : o # source

(* Raw rows around the 6-hour cutoff: older, exactly on it, newer; with or *)
(* without a full window of rows of another source.                        *)
InitScrapeCases ==
    \E source \in Sources, old \in 0..1, edge \in 0..1, recent \in 0..MaxRecent,
       other \in {0, ScrapeThreshold} :
        /\ scraped_content =
              RawRows(source, 1, old, PolicyNow - ScrapeWindow - 1)
              \cup RawRows(source, 1 + old, edge, PolicyNow - ScrapeWindow)
              \cup RawRows(source, 1 + old + edge, recent, PolicyNow - 1)
              \cup RawRows(OtherSource(source), 100, other, PolicyNow - 1)
        /\ processed_content = EmptyBag
        /\ training_jobs = {}
        /\ env = [kind |-> "unset", val |-> 0]

(* Raw rows 1..raw of a source; processed rows for the first done of them  *)
(* (each copies times) and foreign processed rows of the same source whose *)
(* original_id is no raw id of it.                                         *)
InitProcessCases ==
    \E source \in Sources, raw \in 0..MaxDocs, foreign \in 0..2, copies \in 1..2 :
      \E done \in 0..raw :
        /\ scraped_content = RawRows(source, 1, raw, PolicyNow - ScrapeWindow - 1)
        /\ processed_content =
              [r \in {[source |-> source, original_id |-> i,
                       is_training_ready |-> FALSE] : i \in 1..done} |-> copies]
              (+) SetToBag({[source |-> source, original_id |-> 100 + i,
                             is_training_ready |-> FALSE] : i \in 1..foreign})
        /\ training_jobs = {}
        /\ env = [kind |-> "unset", val |-> 0]

ReadyCounts == {0, ConfiguredThreshold - 1, ConfiguredThreshold,
                DefaultAutoTrainThreshold - 1, DefaultAutoTrainThreshold, 1200}

Ages == {0, 1200, TrainingCooldown - 1, TrainingCooldown, TrainingCooldown + 1, 1500}

(* ready training-ready rows, and no training job, one of a given age and  *)
(* rendering, or that one and an older one.                                *)
InitTrainCases ==
    \E ready \in ReadyCounts, e \in EnvValues :
        /\ scraped_content = {}
        /\ processed_content =
              IF ready = 0 THEN EmptyBag
              ELSE [r \in {[source |-> sources[1], original_id |-> 1,
                            is_training_ready |-> TRUE]} |-> ready]
        /\ env = e
        /\ \/ training_jobs = {}
           \/ \E age \in Ages, fmt \in TsFormats, older \in BOOLEAN :
                 training_jobs =
                    {[id |-> 2, created_at |-> PolicyNow - age, fmt |-> fmt,
                      status |-> "completed"]}
                    \cup (IF older
                          THEN {[id |-> 1, created_at |-> PolicyNow - age - TrainingCooldown,
                                 fmt |-> "naive", status |-> "completed"]}
                          ELSE {})

InitPolicy ==
    /\ now = PolicyNow
    /\ faults_left = MaxFaults
    /\ api_usage = {}
    /\ InitScheduler
    /\ (InitScrapeCases \/ InitProcessCases \/ InitTrainCases)

SpecPolicy == InitPolicy /\ [][SchedulerNext]_vars

----------------------------------------------------------------------------
(* Specification of the scheduler loop over several cycles, with failing   *)
(* requests, against a repository that holds a backlog for the first       *)
(* source, possibly a full window of raw rows for the second, enough       *)
(* training-ready rows, and possibly a training job inside its cooldown.   *)

InitLoop ==
    /\ now = PolicyNow
    /\ faults_left = MaxFaults
    /\ api_usage = {}
    /\ InitScheduler
    /\ env = [kind |-> "unset", val |-> 0]
    /\ \E backlog \in {0, ProcessThreshold + 1}, recent \in {0, ScrapeThreshold} :
          scraped_content =
             RawRows(sources[1], 1, backlog, PolicyNow - ScrapeWindow - 1)
             \cup RawRows(sources[2], 100, recent, PolicyNow - 1)
    /\ processed_content =
          [r \in {[source |-> sources[1], original_id |-> 100,
                   is_training_ready |-> TRUE]} |-> DefaultAutoTrainThreshold]
    /\ \/ training_jobs = {}
       \/ \E fmt \in {"naive", "offset"} :
             training_jobs = {[id |-> 1, created_at |-> PolicyNow - 1200,
                               fmt |-> fmt, status |-> "completed"]}

LoopNext ==
    \/ SchedulerNext
    \/ TimedNext

SpecLoop == InitLoop /\ [][LoopNext]_vars

----------------------------------------------------------------------------
(* Specification of the scheduler loop started ten minutes before the      *)
(* daily sweep is due, against training_jobs and api_usage tables that     *)
(* hold rows just older than, exactly on and just newer than the cutoffs   *)
(* of a sweep that runs on time.                                           *)

FirstSweep == SweepDay * DayMinutes + CleanupAt

EdgeOffsets == {-1, 0, 1}

InitSweep ==
    /\ now = FirstSweep - 10
    /\ faults_left = MaxFaults
    /\ InitScheduler
    /\ env = [kind |-> "unset", val |-> 0]
    /\ scraped_content = {}
    /\ processed_content = EmptyBag
    /\ \E js \in SUBSET EdgeOffsets :
          training_jobs =
             {[id |-> 2 + o, created_at |-> FirstSweep - JobRetention + o,
               fmt |-> "naive", status |-> "completed"] : o \in js}
    /\ \E us \in SUBSET EdgeOffsets :
          api_usage =
             {[id |-> 2 + o, created_at |-> FirstSweep - UsageRetention + o] : o \in us}

SpecSweep == InitSweep /\ [][LoopNext]_vars

----------------------------------------------------------------------------
(* Specification of the scheduler loop started ten minutes before the      *)
(* daily sweep is due, against a repository with or without enough         *)
(* training-ready rows and with training_jobs rows around the sweep's      *)
(* cutoff, rendered without or with a UTC offset.                          *)

InitRetain ==
    /\ now = FirstSweep - 10
    /\ faults_left = MaxFaults
    /\ InitScheduler
    /\ env = [kind |-> "int", val |-> ConfiguredThreshold]
    /\ scraped_content = {}
    /\ api_usage = {}
    /\ \E ready \in {0, ConfiguredThreshold} :
          processed_content =
             IF ready = 0 THEN EmptyBag
             ELSE [r \in {[source |-> sources[1], original_id |-> 1,
                           is_training_ready |-> TRUE]} |-> ready]
    /\ \E js \in SUBSET EdgeOffsets, fmt \in {"naive", "offset"} :
          training_jobs =
             {[id |-> 2 + o, created_at |-> FirstSweep - JobRetention + o,
               fmt |-> fmt, status |-> "completed"] : o \in js}

SpecRetain == InitRetain /\ [][LoopNext]_vars

----------------------------------------------------------------------------
(* Specification of two scheduler processes running their initial cycle    *)
(* concurrently against the same repository and queues.                    *)

PairNext ==
    \/ SchedulerNext
    \/ peer_start
    \/ peer_monitor_and_schedule

SpecPair == InitLoop /\ [][PairNext]_vars

----------------------------------------------------------------------------
(* Specification of the scheduler loop with a Redis that may stop          *)
(* answering and a termination signal that may arrive at any time.         *)

HazardNext ==
    \/ redis_never_answers
    \/ shutdown_signal

NextHazard ==
    \/ LoopNext
    \/ HazardNext

SpecHazard == InitLoop /\ [][NextHazard]_vars

----------------------------------------------------------------------------
(* Specification of one scheduler process running its initial cycle, with  *)
(* failing requests, next to the workers on a fresh repository.            *)

InitWork ==
    /\ now = PolicyNow
    /\ env = [kind |-> "int", val |-> ConfiguredThreshold]
    /\ faults_left = MaxFaults
    /\ scraped_content = {}
    /\ processed_content = EmptyBag
    /\ training_jobs = {}
    /\ api_usage = {}
    /\ InitScheduler

WorkerNext ==
    \/ scrape_source
    \/ process_source_data
    \/ train_model_start

WorkNext ==
    \/ SchedulerNext
    \/ WorkerNext

SpecWork == InitWork /\ [][WorkNext]_vars

----------------------------------------------------------------------------
(* Specification of the workers alone on a fresh repository, the training  *)
(* worker running train_model to its end, with failing update requests.    *)

TrainerNext ==
    \/ train_model_prepare
    \/ train_model_finish

NextTrain ==
    \/ WorkerNext
    \/ TrainerNext

SpecTrain == InitWork /\ [][NextTrain]_vars

----------------------------------------------------------------------------
(* Properties *)

InCycle == pc = "cycle"

TrainLog == cycle_log[NumUnits]

(* The unit's `if should_trigger...: schedule...` statement has been run *)
Done(k) ==
    \/ pc \in {"sleep", "run_pending", "run_job", "crashed"}
    \/ (pc = "cycle" /\ k < step)

LatestCreatedAt == Max({r.created_at : r \in training_jobs})

CooldownActive ==
    training_jobs # {} /\ now - LatestCreatedAt < TrainingCooldown

LatestMalformed ==
    /\ training_jobs # {}
    /\ \A r \in training_jobs :
          r.created_at = LatestCreatedAt => r.fmt = "malformed"

LatestWellFormed ==
    \A r \in training_jobs :
        r.created_at = LatestCreatedAt => r.fmt # "malformed"

ReadyRows ==
    BagCardinality([r \in {x \in DOMAIN processed_content : x.is_training_ready}
                       |-> processed_content[r]])

RecentRaw(source) ==
    Cardinality({r \in scraped_content :
                    r.source = source /\ now - r.created_at <= ScrapeWindow})

RawIds(source) == {r.id : r \in {x \in scraped_content : x.source = source}}

OriginIds(source) ==
    {r.original_id : r \in {x \in DOMAIN processed_content : x.source = source}}

Unprocessed(source) ==
    Cardinality(RawIds(source))
    - Cardinality(RawIds(source) \cap OriginIds(source))

SameTarget(q) ==
    \E i, j \in 1..Len(q) : i # j /\ q[i].arg = q[j].arg

(* C1: at most one in-flight job (submitted to a queue of the scheduler    *)
(* and not finished) exists for each (jobType, targetSource) pair.         *)
C1_OneInFlightPerPair ==
    /\ ~SameTarget(scraping_queue)
    /\ ~SameTarget(processing_queue)
    /\ ~SameTarget(training_queue)

(* C2: any two training JobRecords are created at least 24 hours apart. *)
C2_TrainingRecordsCooldown ==
    \A a, b \in training_jobs :
        a.id # b.id =>
            \/ a.created_at - b.created_at >= TrainingCooldown
            \/ b.created_at - a.created_at >= TrainingCooldown

(* C3: whenever the most recent training JobRecord is less than 24 hours   *)
(* old, should_trigger_training has returned false, whatever the           *)
(* readiness count.                                                        *)
C3_CooldownDominates ==
    (InCycle /\ TrainLog.evals > 0 /\ CooldownActive)
        => TrainLog.decision = "false"

C3_Witness ==
    /\ InCycle /\ TrainLog.evals > 0
    /\ TrainLog.read_ok /\ ~TrainLog.error
    /\ CooldownActive
    /\ env.kind = "unset" /\ ReadyRows = 1200
    /\ TrainLog.decision = "false"

(* C4: with the repository read, the threshold and the timestamp all in    *)
(* order, should_trigger_training returns true iff the ready count is at   *)
(* least the threshold and no cooldown is active.                          *)
C4_TrainIffReadyAndNoCooldown ==
    (InCycle /\ TrainLog.evals > 0 /\ TrainLog.read_ok
        /\ env.kind # "garbage" /\ LatestWellFormed)
        => (TrainLog.decision = "true"
              <=> (/\ ReadyRows >= (IF env.kind = "int" THEN env.val
                                    ELSE DefaultAutoTrainThreshold)
                   /\ ~CooldownActive))

(* C5: when its read succeeds, should_trigger_scraping returns true iff    *)
(* fewer than 10 raw items of the source lie in the trailing 6 hours.      *)
C5_ScrapeIffRecentBelowTen ==
    \A k \in 1..NumUnits :
        (InCycle /\ UnitStage(k) = "scraping"
            /\ cycle_log[k].evals > 0 /\ cycle_log[k].read_ok)
            => (cycle_log[k].decision = "true" <=> RecentRaw(UnitSource(k)) < 10)

C5_Witness ==
    \E k \in 1..NumUnits :
        /\ InCycle /\ UnitStage(k) = "scraping"
        /\ cycle_log[k].evals > 0 /\ cycle_log[k].read_ok
        /\ RecentRaw(UnitSource(k)) = 10
        /\ cycle_log[k].decision = "false"

(* C6: when its reads succeed, should_trigger_processing returns true iff  *)
(* |raw ids| - |raw ids /\ processed-origin ids| of the source exceeds 5.  *)
C6_ProcessIffUnprocessedAboveFive ==
    \A k \in 1..NumUnits :
        (InCycle /\ UnitStage(k) = "processing"
            /\ cycle_log[k].evals > 0 /\ cycle_log[k].read_ok)
            => (cycle_log[k].decision = "true" <=> Unprocessed(UnitSource(k)) > 5)

C6_Witness ==
    \E k \in 1..NumUnits :
        /\ InCycle /\ UnitStage(k) = "processing"
        /\ cycle_log[k].evals > 0 /\ cycle_log[k].read_ok
        /\ Unprocessed(UnitSource(k)) = 6
        /\ OriginIds(UnitSource(k)) \ RawIds(UnitSource(k)) # {}
        /\ OriginIds(UnitSource(k)) \cap RawIds(UnitSource(k)) # {}
        /\ cycle_log[k].decision = "true"

(* C7: a failed read for one source does not stop the cycle: every unit of *)
(* work before the current position has been evaluated exactly once and    *)
(* dispatched if positive, and the cycle is left only at its last step.    *)
C7_ReadFailureIsolated ==
    /\ pc = "crashed" => step = GaugeStep
    /\ \A k \in 1..NumUnits :
          Done(k) => /\ cycle_log[k].evals = 1
                     /\ cycle_log[k].decision # "none"
                     /\ cycle_log[k].decision = "true" => cycle_log[k].calls = 1

C7_Witness ==
    /\ InCycle /\ step = GaugeStep
    /\ TrainLog.evals = 1
    /\ \E k, j \in 1..(NumUnits - 1) :
          /\ ~cycle_log[k].read_ok
          /\ k < j /\ UnitSource(j) # UnitSource(k)
          /\ cycle_log[j].decision = "true" /\ cycle_log[j].calls = 1

(* C8: a trigger whose read failed, or that met a malformed timestamp,     *)
(* returned false through its except clause, nothing was submitted for it, *)
(* and no exception left the trigger function.                             *)
C8_TriggersFailClosed ==
    /\ \A k \in 1..NumUnits :
          (InCycle /\ cycle_log[k].evals > 0
              /\ (~cycle_log[k].read_ok \/ (k = NumUnits /\ LatestMalformed)))
              => /\ cycle_log[k].decision = "false"
                 /\ cycle_log[k].error
                 /\ cycle_log[k].calls = 0
    /\ ~(pc = "crashed" /\ step <= NumUnits)

C8_Witness ==
    /\ InCycle /\ TrainLog.evals > 0 /\ TrainLog.read_ok
    /\ LatestMalformed
    /\ env.kind = "unset" /\ ReadyRows >= DefaultAutoTrainThreshold
    /\ TrainLog.decision = "false" /\ TrainLog.error /\ TrainLog.calls = 0

(* C9: no failure during a monitoring cycle is fatal: the scheduler        *)
(* process never terminates on an exception.                               *)
C9_CycleFailureNeverFatal == pc # "crashed"

(* C10: a unit of work has had exactly one queue-submission call if its    *)
(* trigger decision was positive and none otherwise.                       *)
C10_OneSubmissionPerPositive ==
    \A k \in 1..NumUnits :
        cycle_log[k].calls = (IF cycle_log[k].decision = "true" THEN 1 ELSE 0)

C10_Witness ==
    /\ InCycle /\ step = GaugeStep
    /\ TrainLog.decision = "true" /\ TrainLog.calls = 1
    /\ Len(training_queue) = 1
    /\ \E k \in 1..NumUnits :
          cycle_log[k].decision = "false" /\ cycle_log[k].calls = 0

(* The scrape jobs the running cycle has put on the scraping queue *)
ScrapeJobsOfCycle ==
    SubSeq(scraping_queue, cycle_start.queued["scraping"] + 1, Len(scraping_queue))

NeedScrape == {s \in Sources : RecentRaw(s) < 10}

(* Every scrape trigger of the cycle has been evaluated on a successful    *)
(* read and every scrape submission of the cycle succeeded.                *)
ScrapeAllOk ==
    /\ \A k \in 1..NumUnits :
          UnitStage(k) = "scraping" =>
              cycle_log[k].evals = 1 /\ cycle_log[k].read_ok
    /\ \A i \in 1..Len(events) :
          (events[i].kind = "dispatch" /\ events[i].stage = "scraping")
              => events[i].ok

(* C11: in a cycle whose reads and submissions succeed, the scrape jobs    *)
(* enqueued are exactly one for each known source with fewer than 10       *)
(* recent items, targeting that source, none for the other sources, and    *)
(* scheduled_jobs_total{scraping} grows by the number of those sources.    *)
C11_OneScrapeJobPerStarvedSource ==
    (InCycle /\ ScrapeAllOk) =>
        /\ \A s \in Sources :
              Cardinality({i \in 1..Len(ScrapeJobsOfCycle) :
                              ScrapeJobsOfCycle[i].arg = s})
                 = (IF RecentRaw(s) < 10 THEN 1 ELSE 0)
        /\ Len(ScrapeJobsOfCycle) = Cardinality(NeedScrape)
        /\ SCHEDULED_JOBS["scraping"] - cycle_start.scheduled["scraping"]
              = Cardinality(NeedScrape)

C11_Witness ==
    /\ InCycle /\ ScrapeAllOk /\ step = GaugeStep
    /\ cycle_start.queued["scraping"] > 0
    /\ RecentRaw(sources[1]) < 10 /\ RecentRaw(sources[2]) >= 10
    /\ Len(ScrapeJobsOfCycle) = 2
    /\ ScrapeJobsOfCycle[1].arg = sources[1]
    /\ SCHEDULED_JOBS["scraping"] = cycle_start.scheduled["scraping"] + 2

(* Dispatch attempts of a job type in the running cycle, by outcome *)
Dispatches(job_type, ok) ==
    {i \in 1..Len(events) :
        /\ events[i].kind = "dispatch"
        /\ events[i].stage = job_type
        /\ events[i].ok = ok}

UnitOf(ev) ==
    CHOOSE k \in 1..NumUnits :
        UnitStage(k) = ev.stage /\ UnitSource(k) = ev.source

(* C12: every dispatch attempt of a job type adds one to exactly one       *)
(* counter of that type, scheduled_jobs_total if the submission succeeded  *)
(* and failed_jobs_total if it raised; a failed submission does not leave  *)
(* the cycle, which goes on to its next step.                              *)
C12_OneCounterPerDispatch ==
    /\ \A t \in JobTypes :
          /\ SCHEDULED_JOBS[t] - cycle_start.scheduled[t]
                = Cardinality(Dispatches(t, TRUE))
          /\ FAILED_JOBS[t] - cycle_start.failed[t]
                = Cardinality(Dispatches(t, FALSE))
    /\ \A i \in 1..Len(events) :
          (events[i].kind = "dispatch" /\ ~events[i].ok)
              => /\ pc = "crashed" => step = GaugeStep
                 /\ pc = "cycle" => step > UnitOf(events[i])

C12_Witness ==
    \E i, j \in 1..Len(events) :
        /\ i < j
        /\ events[i].kind = "dispatch" /\ ~events[i].ok
        /\ events[j].kind = "dispatch" /\ events[j].ok
        /\ events[j].stage = "training"
        /\ FAILED_JOBS[events[i].stage] = cycle_start.failed[events[i].stage] + 1
        /\ SCHEDULED_JOBS["training"] = cycle_start.scheduled["training"] + 1

Swept == last_cleanup.runs > 0

(* C13: a sweep run at time now has deleted every training JobRecord with  *)
(* created_at < now - 7 days and none with created_at >= now - 7 days.     *)
C13_SweepCutoffSevenDays ==
    (Swept /\ last_cleanup.failed_at # 1) =>
        \A r \in last_cleanup.jobs :
            r \in training_jobs
               <=> r.created_at >= last_cleanup.at - 7 * DayMinutes

C13_Witness ==
    /\ Swept /\ last_cleanup.failed_at # 1
    /\ \E r \in last_cleanup.jobs :
          r.created_at = last_cleanup.at - 7 * DayMinutes /\ r \in training_jobs
    /\ \E r \in last_cleanup.jobs :
          r.created_at = last_cleanup.at - 7 * DayMinutes - 1 /\ r \notin training_jobs

(* C14: a sweep whose requests succeed has deleted the JobRecords older    *)
(* than 7 days and the usage-log rows older than 30 days, and no usage-log *)
(* row that is not older than 30 days.                                     *)
C14_SweepBothTables ==
    (Swept /\ last_cleanup.failed_at = 0) =>
        /\ \A r \in training_jobs :
              r.created_at >= last_cleanup.at - 7 * DayMinutes
        /\ \A u \in last_cleanup.usage :
              u \in api_usage
                 <=> u.created_at >= last_cleanup.at - 30 * DayMinutes

C14_Witness ==
    /\ Swept /\ last_cleanup.failed_at = 0
    /\ \E r \in last_cleanup.jobs : r \notin training_jobs
    /\ \E u \in last_cleanup.usage :
          u.created_at = last_cleanup.at - 30 * DayMinutes - 1 /\ u \notin api_usage
    /\ \E u \in last_cleanup.usage :
          u.created_at >= last_cleanup.at - 30 * DayMinutes /\ u \in api_usage

(* C15: a cycle whose stats aggregation failed evaluates no trigger and    *)
(* dispatches nothing; the loop waits for the next tick.                   *)
C15_StatsFailureEndsCycle ==
    stats = "empty" =>
        \A k \in 1..NumUnits :
            cycle_log[k].evals = 0 /\ cycle_log[k].calls = 0

(* C16: every trigger evaluation of the running cycle that raised has      *)
(* added one to failed_jobs_total of its job type.                         *)
C16_TriggerErrorCounted ==
    \A t \in JobTypes :
        FAILED_JOBS[t] - cycle_start.failed[t]
           >= Cardinality({k \in 1..NumUnits :
                              UnitStage(k) = t /\ cycle_log[k].error})

SourceIndex(s) == CHOOSE i \in 1..Len(sources) : sources[i] = s

(* Place of an event in the order of the cycle: the sources in the order   *)
(* of the configuration, scrape before process, then train, then gauges.   *)
Rank(ev) ==
    IF ev.kind = "gauge" THEN 2 * Len(sources) + 2
    ELSE IF ev.stage = "training" THEN 2 * Len(sources) + 1
    ELSE IF ev.stage = "scraping" THEN 2 * SourceIndex(ev.source) - 1
    ELSE 2 * SourceIndex(ev.source)

CycleReturned == cycles > 0 /\ pc \in {"sleep", "run_pending", "run_job"}

(* C17: the events of every cycle come in one order: sources in the order  *)
(* of the configuration, for each source scrape evaluated and dispatched   *)
(* before process, the train trigger after all sources, the gauges last    *)
(* (each event is followed by one of a higher place, by its own dispatch   *)
(* or by another gauge); a cycle that returned has evaluated every trigger *)
(* and set every gauge.                                                    *)
C17_FixedEventOrder ==
    /\ \A i \in 1..(Len(events) - 1) :
          \/ Rank(events[i]) < Rank(events[i + 1])
          \/ /\ Rank(events[i]) = Rank(events[i + 1])
             /\ \/ events[i].kind = "evaluate" /\ events[i + 1].kind = "dispatch"
                \/ events[i].kind = "gauge" /\ events[i + 1].kind = "gauge"
    /\ CycleReturned =>
          /\ \A n \in 1..(2 * Len(sources) + 1) :
                \E i \in 1..Len(events) :
                    events[i].kind = "evaluate" /\ Rank(events[i]) = n
          /\ \A t \in JobTypes :
                \E i \in 1..Len(events) :
                    events[i].kind = "gauge" /\ events[i].stage = t

C17_Witness ==
    /\ CycleReturned /\ cycles = 2
    /\ events[Len(events)].kind = "gauge"
    /\ \E i, j, k \in 1..Len(events) :
          /\ i < j /\ j < k
          /\ events[i].kind = "dispatch" /\ events[i].stage = "scraping"
          /\ events[j].kind = "dispatch" /\ events[j].stage = "processing"
          /\ events[j].source = events[i].source
          /\ events[k].kind = "dispatch" /\ events[k].stage = "training"

(* C18: every monitoring cycle after the first starts at least one period  *)
(* (30 minutes) after the start of the cycle before it.                    *)
C18_CyclesOnePeriodApart ==
    cycles >= 2 => cycle_start.at - cycle_start.prev_at >= 30

(* C19: any two training jobs the scheduler has dispatched were dispatched *)
(* at least 24 hours apart.                                                *)
C19_TrainingDispatchesCooldown ==
    \A i, j \in 1..Len(training_queue) :
        i < j =>
            training_queue[j].enqueued_at - training_queue[i].enqueued_at
               >= 24 * 60

(* C20: a retention sweep that run_pending found due is not lost to a      *)
(* monitoring cycle that raises.                                           *)
C20_DueSweepNotPrevented ==
    ~(pc = "crashed" /\ pending # <<>> /\ Head(pending) = "cleanup")

(* C21: an unparsable AUTO_TRAIN_THRESHOLD ends the process at startup: no *)
(* monitoring cycle is ever started with it.                               *)
C21_ConfigErrorFatalAtStartup ==
    env.kind = "garbage" => cycles = 0

LatestNaive ==
    \A r \in training_jobs :
        r.created_at = LatestCreatedAt => r.fmt = "naive"

(* The decision of unit k as a function of the repository contents, the    *)
(* clock and the environment alone.                                        *)
Decides(k) ==
    CASE UnitStage(k) = "scraping"   -> RecentRaw(UnitSource(k)) < 10
      [] UnitStage(k) = "processing" -> Unprocessed(UnitSource(k)) > 5
      [] UnitStage(k) = "training"   ->
            /\ env.kind # "garbage"
            /\ LatestNaive
            /\ ~CooldownActive
            /\ ReadyRows >= (IF env.kind = "int" THEN env.val
                             ELSE DefaultAutoTrainThreshold)

(* C22: a trigger evaluation changes neither the repository, the clock,    *)
(* the environment, the worker queue nor the schedule; with a negative     *)
(* decision it changes no scheduler queue and no counter either; and with  *)
(* its reads succeeding its decision is the same function of repository    *)
(* contents, clock and environment at every evaluation.                    *)
C22_TriggersStatelessDeterministic ==
    [][(pc = "cycle" /\ step \in 1..NumUnits /\ step' = step + 1) =>
          /\ UNCHANGED <<now, env, repo_vars, queue, ACTIVE_JOBS,
                         next_run, cleanup_next_run, pending, cycles>>
          /\ cycle_log'[step].decision = "false" =>
                UNCHANGED <<sched_queues, SCHEDULED_JOBS, FAILED_JOBS>>
          /\ cycle_log'[step].read_ok =>
                (cycle_log'[step].decision = "true" <=> Decides(step))]_vars

C22_Witness ==
    /\ InCycle /\ cycles = 2 /\ step = GaugeStep
    /\ \A k \in 1..NumUnits : cycle_log[k].read_ok
    /\ \E k \in 1..NumUnits :
          /\ UnitStage(k) = "processing"
          /\ cycle_log[k].decision = "true"
          /\ \E i \in 1..cycle_start.queued["processing"] :
                processing_queue[i].arg = UnitSource(k)
    /\ \E k \in 1..NumUnits : cycle_log[k].decision = "false"

(* C23: no step of the control loop removes or changes a raw or processed  *)
(* item: every raw row stays, no processed row loses copies, so no         *)
(* per-source raw, processed or training-ready count decreases.            *)
C23_SchedulerNeverRemovesItems ==
    [][/\ scraped_content \subseteq scraped_content'
       /\ \A r \in DOMAIN processed_content :
             /\ r \in DOMAIN processed_content'
             /\ processed_content'[r] >= processed_content[r]]_vars

C23_Witness ==
    /\ Swept /\ cycles = 2 /\ CycleReturned
    /\ scraped_content # {}
    /\ \A r \in scraped_content : r.created_at < last_cleanup.at - ScrapeWindow
    /\ processed_content # EmptyBag
    /\ Len(scraping_queue) > 0 /\ Len(training_queue) > 0

(* The step is train_model starting a job taken from the worker queue *)
TrainingWorkerStarts ==
    /\ queue # <<>>
    /\ Head(queue).func = "model_training.train.train_model"
    /\ queue' = Tail(queue)
    /\ UNCHANGED <<sched_queues, metric_vars, pc, step>>

(* C24: no dispatch of the scheduler, succeeding or failing, inserts or    *)
(* updates a training JobRecord; a step that adds or changes one is the    *)
(* training worker starting a job, and it adds exactly one row, with       *)
(* status 'started'.                                                       *)
C24_OnlyWorkerWritesJobRecords ==
    [][/\ (SCHEDULED_JOBS' # SCHEDULED_JOBS \/ FAILED_JOBS' # FAILED_JOBS)
             => training_jobs' = training_jobs
       /\ ~(training_jobs' \subseteq training_jobs)
             => /\ TrainingWorkerStarts
                /\ training_jobs \subseteq training_jobs'
                /\ Cardinality(training_jobs' \ training_jobs) = 1
                /\ \A j \in training_jobs' \ training_jobs :
                      j.status = "started"]_vars

C24_Witness ==
    /\ \E j \in training_jobs : j.status = "started"
    /\ Len(training_queue) = 1
    /\ SCHEDULED_JOBS["training"] = 1
    /\ FAILED_JOBS["processing"] = 1

(* Events of one kind that unit k has logged in the running cycle *)
EventsOf(k, kind) ==
    {i \in 1..Len(events) :
        /\ events[i].kind = kind
        /\ events[i].stage = UnitStage(k)
        /\ events[i].source = UnitSource(k)}

(* C25: in one cycle each (stage, source) trigger is evaluated at most     *)
(* once and at most one submission is attempted for it, also when the read *)
(* or the submission failed; a unit whose read or submission failed is not *)
(* attempted again before the next cycle.                                  *)
C25_NoRetryWithinCycle ==
    \A k \in 1..NumUnits :
        /\ cycle_log[k].evals <= 1
        /\ cycle_log[k].calls <= 1
        /\ cycle_log[k].calls = 1 =>
              cycle_log[k].evals = 1 /\ cycle_log[k].decision = "true"
        /\ ~cycle_log[k].read_ok =>
              cycle_log[k].evals = 1 /\ cycle_log[k].calls = 0

C25_Witness ==
    /\ cycles = 2 /\ InCycle /\ step = GaugeStep
    /\ faults_left = 0
    /\ FAILED_JOBS["processing"] = 1
    /\ cycle_start.failed["processing"] = 1
    /\ \E k \in 1..NumUnits :
          /\ UnitStage(k) = "processing"
          /\ cycle_log[k].evals = 1 /\ cycle_log[k].calls = 1
          /\ EventsOf(k, "dispatch") \cap Dispatches("processing", TRUE) # {}

(* Jobs for the target of unit k in the scheduler queue of its stage *)
JobsFor(k) ==
    LET q == CASE UnitStage(k) = "scraping" -> scraping_queue
               [] UnitStage(k) = "processing" -> processing_queue
               [] UnitStage(k) = "training" -> training_queue
    IN  {i \in 1..Len(q) : q[i].arg = UnitSource(k)}

(* Both processes have evaluated unit k, the first in its first cycle and  *)
(* with its read succeeding                                                *)
BothEvaluated(k) ==
    /\ cycles = 1
    /\ cycle_log[k].evals = 1 /\ cycle_log[k].read_ok
    /\ peer.decision[k] # "none"

(* C26: two scheduler processes on the same repository and queues are not  *)
(* kept apart by anything: both reach the same decision for every          *)
(* (jobType, targetSource) from the same repository state, whichever went  *)
(* first, and when that decision is positive and the submissions succeed   *)
(* the queue holds a duplicate job for the target.                         *)
C26_DuplicateDispatchPossible ==
    \A k \in 1..NumUnits :
        BothEvaluated(k) =>
            /\ peer.decision[k] = cycle_log[k].decision
            /\ (cycle_log[k].decision = "true"
                /\ EventsOf(k, "dispatch") \cap Dispatches(UnitStage(k), TRUE) # {})
                  => Cardinality(JobsFor(k)) >= 2

C26_Witness ==
    \E k \in 1..NumUnits :
        /\ BothEvaluated(k)
        /\ UnitStage(k) = "processing"
        /\ cycle_log[k].decision = "true" /\ peer.decision[k] = "true"
        /\ Cardinality(JobsFor(k)) = 2
        /\ pc = "cycle" /\ peer.step \in 1..NumUnits

(* C27: no request of the scheduler waits for ever: a monitoring cycle is  *)
(* never stuck in a request that will not return.                          *)
C27_NoOperationBlocksForever == pc # "blocked"

(* C28: a termination signal ends the process with exit code 0, and it     *)
(* does so between cycles: a cycle in flight is not cut short.             *)
C28_CleanShutdownOnSignal ==
    [][pc' = "killed" /\ pc # "killed" =>
          /\ pc \notin {"cycle", "run_job"}
          /\ exit_status' = "0"]_vars

(* C29: every job in a scheduler queue is the job of that queue's stage:   *)
(* scraping holds scrape_source jobs with a source and 1 hour, processing  *)
(* holds process_source_data jobs with a source and 2 hours, training      *)
(* holds train_model jobs without a source and with 6 hours.               *)
C29_JobsCarryStageTimeoutAndQueue ==
    /\ \A i \in 1..Len(scraping_queue) :
          /\ scraping_queue[i].func =
                "data_collection.scraper.WebScraper.scrape_source"
          /\ scraping_queue[i].arg \in Sources
          /\ scraping_queue[i].job_timeout = ScrapeTimeout
    /\ \A i \in 1..Len(processing_queue) :
          /\ processing_queue[i].func =
                "data_processing.processor.DataProcessor.process_source_data"
          /\ processing_queue[i].arg \in Sources
          /\ processing_queue[i].job_timeout = ProcessTimeout
    /\ \A i \in 1..Len(training_queue) :
          /\ training_queue[i].func =
                "model_training.train.ModelTrainer.train_model"
          /\ training_queue[i].arg = NoSource
          /\ training_queue[i].job_timeout = TrainTimeout

C29_Witness ==
    /\ scraping_queue # <<>> /\ processing_queue # <<>> /\ training_queue # <<>>
    /\ SCHEDULED_JOBS["scraping"] >= 1
    /\ SCHEDULED_JOBS["processing"] >= 1
    /\ SCHEDULED_JOBS["training"] >= 1
    /\ pc = "sleep"

(* C30: a job the scheduler submitted waits in a queue that a worker       *)
(* listens on, so that a worker can dequeue it.                            *)
C30_SubmittedJobsReachAWorker ==
    \A t \in JobTypes : QueueLen(t) > 0 => t \in worker_queue_names

(* A worker has run process_source_data to completion in this step *)
ProcessingJobCompletes ==
    /\ queue # <<>>
    /\ Head(queue).func = "data_processing.processor.process_source_data"
    /\ queue' # queue
    /\ scraped_content' = scraped_content

(* C31: processing is self-correcting: a processing job that runs to       *)
(* completion while no raw item arrives leaves the process trigger of its  *)
(* source false, also when the worker rejected documents.                  *)
C31_ProcessingSelfCorrecting ==
    [][\A source \in Sources :
          ProcessingJobCompletes /\ Head(queue).arg = source =>
              (unprocessed_count(source) <= ProcessThreshold)']_vars

(* cleanup_old_jobs has run in this step *)
SweepStep == last_cleanup.runs' = last_cleanup.runs + 1

(* C32: with well-formed timestamps the retention sweep does not change    *)
(* what should_trigger_training returns at the time of the sweep.          *)
C32_SweepKeepsTrainDecision ==
    [][SweepStep /\ LatestWellFormed =>
          (should_trigger_training(TRUE).ret)' = should_trigger_training(TRUE).ret]_vars

(* C33: every train_model execution has exactly one JobRecord; an          *)
(* execution that returned has not left its record failed; an execution    *)
(* that raised after creating its record has left it failed.               *)
C33_JobRecordLifecycle ==
    \A job_id \in DOMAIN executions :
        /\ Cardinality({r \in training_jobs : r.id = job_id}) = 1
        /\ \A r \in training_jobs :
              r.id = job_id =>
                 /\ executions[job_id] = "returned" => r.status # "failed"
                 /\ executions[job_id] = "raised" => r.status = "failed"

(* The gauge loop has finished in this step and the cycle has returned *)
CycleCompletes ==
    /\ pc = "cycle" /\ step = GaugeStep
    /\ pc' \notin {"cycle", "crashed"}

(* C34: when a monitoring cycle completes, each stage's gauge equals the   *)
(* length of that stage's queue, which is its length at the start of the   *)
(* cycle plus the jobs the cycle submitted to it.                          *)
C34_GaugesEqualQueueLengths ==
    [][CycleCompletes =>
          \A t \in JobTypes :
              /\ ACTIVE_JOBS'[t] = QueueLen(t)
              /\ QueueLen(t) = cycle_start.queued[t]
                                  + Cardinality(Dispatches(t, TRUE))
              /\ UNCHANGED sched_queues]_vars

C34_Witness ==
    /\ cycles = 2 /\ pc \in {"sleep", "run_pending"}
    /\ cycle_start.queued["processing"] = 1
    /\ Cardinality(Dispatches("processing", TRUE)) = 1
    /\ ACTIVE_JOBS["processing"] = 2
    /\ ACTIVE_JOBS["scraping"] = QueueLen("scraping")
    /\ ACTIVE_JOBS["training"] = QueueLen("training")

(* C35: a failure inside the retention sweep does not leave                *)
(* cleanup_old_jobs, the loop goes on; when the deletion of JobRecords     *)
(* raises neither table is changed, when the deletion of usage rows raises *)
(* the old JobRecords are gone and the usage rows are unchanged.           *)
C35_SweepFailureContained ==
    [][SweepStep =>
          /\ pc' \in {"sleep", "run_job"}
          /\ last_cleanup.failed_at' = 1 =>
                UNCHANGED <<training_jobs, api_usage>>
          /\ last_cleanup.failed_at' = 2 =>
                /\ training_jobs' =
                      {r \in training_jobs : r.created_at >= now - JobRetention}
                /\ UNCHANGED api_usage]_vars

C35_Witness ==
    /\ Swept /\ last_cleanup.failed_at = 1
    /\ pc = "sleep"
    /\ training_jobs = last_cleanup.jobs
    /\ api_usage = last_cleanup.usage
    /\ \E u \in api_usage : u.created_at < last_cleanup.at - UsageRetention
    /\ \E j \in training_jobs : j.created_at < last_cleanup.at - JobRetention

(* C36: a started process runs one monitoring cycle at once, not through   *)
(* the schedule and before the first poll; every later cycle comes from    *)
(* the schedule; and no sweep runs before the first 02:00 after the start. *)
C36_InitialCycleThenSchedule ==
    /\ cycles = 0 <=> pc \in {"boot", "registered"}
    /\ cycles = 0 => ~Swept
    /\ cycles = 1 =>
          /\ ~via_schedule
          /\ cycle_start.at <= (FirstSweep - 10) + MaxStartupDelay
    /\ cycles > 1 => via_schedule
    /\ Swept => last_cleanup.at >= FirstSweep

C36_Witness ==
    /\ cycles = 1 /\ ~via_schedule
    /\ Swept /\ last_cleanup.runs = 1 /\ last_cleanup.at = FirstSweep
    /\ pc = "sleep"

====
